---- MODULE Spec2Model ----
(***************************************************************************)
(* Model of the chat client (App), the relay (handleResponses) and the     *)
(* request shaper (createResponse) of rupnikj/responses_api.               *)
(*                                                                         *)
(* JavaScript values are tagged records, so that truthiness, `||` and      *)
(* absent fields behave as they do in the source.  Strings are sequences   *)
(* of tokens: user-typed text and file names are sequences of single       *)
(* characters, a string literal of the source is one token.                *)
(***************************************************************************)
EXTENDS Integers, Sequences, FiniteSets, TLC

VARIABLES
    messages,               \* App state: Message[]
    input,                  \* App state: the text box
    isLoading,              \* App state
    lastResponseId,         \* App state: string | null (| undefined)
    selectedFile,           \* App state: File | null (the File's name)
    webSearchEnabled,       \* App state
    codeInterpreterEnabled, \* App state
    deepWikiMcpEnabled,     \* App state
    imageGenerationEnabled, \* App state
    sendOutcome,            \* what the latest sendMessage invocation did
    turns                   \* one record per request: its closure, the relay's
                            \* handling of it and the shaper's progress

vars == <<messages, input, isLoading, lastResponseId, selectedFile,
          webSearchEnabled, codeInterpreterEnabled, deepWikiMcpEnabled,
          imageGenerationEnabled, sendOutcome, turns>>

appVars == <<messages, input, isLoading, lastResponseId, selectedFile,
             webSearchEnabled, codeInterpreterEnabled, deepWikiMcpEnabled,
             imageGenerationEnabled, sendOutcome>>

-----------------------------------------------------------------------------
(* Bounds *)

MaxTurns == 2

MaxTextLen == 1

MaxItems == 2

-----------------------------------------------------------------------------
(* JavaScript values *)

Undefined == [t |-> "undefined"]

Null == [t |-> "null"]

Str(s) == [t |-> "string", s |-> s]

Bool(b) == [t |-> "boolean", b |-> b]

Arr(a) == [t |-> "array", a |-> a]

IsStr(v) == v.t = "string"

Truthy(v) ==
    CASE v.t = "undefined" -> FALSE
      [] v.t = "null"      -> FALSE
      [] v.t = "boolean"   -> v.b
      [] v.t = "string"    -> v.s # <<>>
      [] OTHER             -> TRUE

\* a || b
JsOr(a, b) == IF Truthy(a) THEN a ELSE b

\* String.prototype.trim over the whitespace character of the model
RECURSIVE TrimStart(_)
TrimStart(s) ==
    IF s # <<>> /\ Head(s) = " " THEN TrimStart(Tail(s)) ELSE s

RECURSIVE TrimEnd(_)
TrimEnd(s) ==
    IF s # <<>> /\ s[Len(s)] = " " THEN TrimEnd(SubSeq(s, 1, Len(s) - 1)) ELSE s

Trim(s) == TrimEnd(TrimStart(s))

\* String.prototype.toLowerCase, character by character
LowerChar(c) ==
    CASE c = "A" -> "a" [] c = "P" -> "p" [] c = "N" -> "n" [] c = "G" -> "g"
      [] c = "J" -> "j" [] c = "D" -> "d" [] c = "F" -> "f"
      [] OTHER -> c

ToLowerCase(s) == [i \in 1..Len(s) |-> LowerChar(s[i])]

\* path.extname (posix): one backwards scan over the path.  Indices are the
\* 0-based indices of the library code; -1 is "not seen".
RECURSIVE ExtnameScan(_, _, _)
ExtnameScan(path, i, st) ==
    IF i < 0 THEN st
    ELSE LET code == path[i + 1] IN
         IF code = "/"
         THEN IF ~st.matchedSlash
              THEN [st EXCEPT !.startPart = i + 1]
              ELSE ExtnameScan(path, i - 1, st)
         ELSE LET s1 == IF st.end = -1
                        THEN [st EXCEPT !.matchedSlash = FALSE, !.end = i + 1]
                        ELSE st
                  s2 == IF code = "."
                        THEN IF s1.startDot = -1
                             THEN [s1 EXCEPT !.startDot = i]
                             ELSE IF s1.preDotState # 1
                                  THEN [s1 EXCEPT !.preDotState = 1]
                                  ELSE s1
                        ELSE IF s1.startDot # -1
                             THEN [s1 EXCEPT !.preDotState = -1]
                             ELSE s1
              IN ExtnameScan(path, i - 1, s2)

Extname(path) ==
    LET st == ExtnameScan(path, Len(path) - 1,
                          [startDot |-> -1, startPart |-> 0, end |-> -1,
                           matchedSlash |-> TRUE, preDotState |-> 0])
    IN IF \/ st.startDot = -1
          \/ st.end = -1
          \/ st.preDotState = 0
          \/ (st.preDotState = 1 /\ st.startDot = st.end - 1
                                 /\ st.startDot = st.startPart + 1)
       THEN <<>>
       ELSE SubSeq(path, st.startDot + 1, st.end)

-----------------------------------------------------------------------------
(* String literals of the source *)

FallbackPrompt == <<"Please analyze this file">>

MissingInput == <<"Missing input">>

UploadFailed == <<"Failed to upload file to OpenAI">>

ApiErrorText == <<"OpenAI API error">>

ErrorBubbleText == <<"Error: Failed to get response from API">>

NoContentText == <<"No recognizable content received from API.">>

NoOutputText == <<"No output array received from API.">>

ImageCaption == <<"Image generated:">>

ImageExtensions ==
    { <<".", "p", "n", "g">>, <<".", "j", "p", "g">>, <<".", "j", "p", "e", "g">>,
      <<".", "g", "i", "f">>, <<".", "w", "e", "b", "p">> }

-----------------------------------------------------------------------------
(* Request shaper: createResponse (openai.ts) *)

WebSearchTool == [type |-> "web_search"]

CodeInterpreterTool == [type |-> "code_interpreter", container |-> [type |-> "auto"]]

DeepWikiTool ==
    [type |-> "mcp", server_label |-> "deepwiki",
     server_url |-> "https://mcp.deepwiki.com/mcp",
     allowed_tools |-> <<"read_wiki_structure", "read_wiki_contents", "ask_question">>,
     require_approval |-> "never"]

ImageGenerationTool == [type |-> "image_generation", moderation |-> "low"]

\* a mutation of ToolList: the image_generation descriptor is pushed before mcp
ToolListSwapped(a) ==
    (IF Truthy(a.webSearchEnabled) THEN <<WebSearchTool>> ELSE <<>>)
    \o (IF Truthy(a.codeInterpreterEnabled) THEN <<CodeInterpreterTool>> ELSE <<>>)
    \o (IF Truthy(a.imageGenerationEnabled) THEN <<ImageGenerationTool>> ELSE <<>>)
    \o (IF Truthy(a.deepWikiMcpEnabled) THEN <<DeepWikiTool>> ELSE <<>>)

\* the local array `tools` after the four pushes
ToolList(a) ==
    (IF Truthy(a.webSearchEnabled) THEN <<WebSearchTool>> ELSE <<>>)
    \o (IF Truthy(a.codeInterpreterEnabled) THEN <<CodeInterpreterTool>> ELSE <<>>)
    \o (IF Truthy(a.deepWikiMcpEnabled) THEN <<DeepWikiTool>> ELSE <<>>)
    \o (IF Truthy(a.imageGenerationEnabled) THEN <<ImageGenerationTool>> ELSE <<>>)

\* params before the file branch; a field that is never assigned is Undefined
InitialParams(a) ==
    [model |-> "gpt-4.1",
     previous_response_id |->
         IF Truthy(a.previousResponseId) THEN a.previousResponseId ELSE Undefined,
     tools |-> IF Len(ToolList(a)) > 0 THEN Arr(ToolList(a)) ELSE Undefined,
     input |-> Undefined]

\* a mutation of FileToUpload: the stored file is uploaded under its own name
FileToUploadPlain(a) == a.filePath.s

\* the name of the file that is streamed to files.create
FileToUpload(a) ==
    IF Truthy(a.originalFilename)
    THEN a.filePath.s \o Extname(a.originalFilename.s)
    ELSE a.filePath.s

FileToCheck(a) == JsOr(a.originalFilename, a.filePath)

\* a mutation of IsImage: the extension is compared as written
IsImageCaseSensitive(a) == Extname(FileToCheck(a).s) \in ImageExtensions

IsImage(a) == ToLowerCase(Extname(FileToCheck(a).s)) \in ImageExtensions

\* params.input of the file branch
MultimodalInput(a, fileId) ==
    Arr(<< [role |-> "user",
            content |-> Arr(<< [type |-> "input_text", text |-> a.input],
                               [type |-> IF IsImage(a) THEN "input_image"
                                                       ELSE "input_file",
                                file_id |-> fileId] >>)] >>)

-----------------------------------------------------------------------------
(* Turns: one record per request *)

\* where multer stores an upload: dest 'uploads/' and a generated name that
\* has no extension
StoredPath == <<"u", "p", "l", "o", "a", "d", "s", "/", "f", "1">>

\* the content of the file the caller has stored
FileBytes == "bytes"

\* fs.copyFileSync(src, dest) on a disk, a set of files: dest is created or
\* overwritten with the bytes of src; with dest the same file as src nothing
\* is written
CopyFileSync(disk, src, dest) ==
    IF src = dest THEN disk
    ELSE { f \in disk : f.path # dest }
         \cup { [path |-> dest, bytes |-> (CHOOSE f \in disk : f.path = src).bytes] }

NoArgs ==
    [input |-> Undefined, previousResponseId |-> Undefined, filePath |-> Undefined,
     originalFilename |-> Undefined, webSearchEnabled |-> Undefined,
     codeInterpreterEnabled |-> Undefined, deepWikiMcpEnabled |-> Undefined,
     imageGenerationEnabled |-> Undefined]

NewTurn(origin, req, a) ==
    [origin |-> origin,          \* "app", "http" (another HTTP client), "call"
     client |-> IF origin = "app" THEN "waiting" ELSE "none",
     req |-> req,                \* the inbound request of the relay
     args |-> a,                 \* the arguments of createResponse
     pc |-> IF origin = "call" THEN "call" ELSE "sent",
     params |-> Undefined,       \* the payload under construction
     fileToUpload |-> Undefined,
     disk |->                    \* the files of this request on the relay's disk
         IF origin = "call"
         THEN IF Truthy(a.filePath)
              THEN { [path |-> a.filePath.s, bytes |-> FileBytes] } ELSE {}
         ELSE IF req.route = "file" /\ Truthy(req.file)
              THEN { [path |-> StoredPath, bytes |-> FileBytes] } ELSE {},
     storage |-> "none",         \* how the copy and the upload went:
                                 \* "none", "ok", "copyFailed", "uploadFailed"
     uploads |-> 0,              \* calls of openai.files.create
     creates |-> 0,              \* calls of openai.responses.create
     sent |-> Undefined,         \* the payload responses.create was called with
     out |-> Undefined,          \* how createResponse settled
     answers |-> 0,              \* answers the relay has sent
     res |-> Undefined]          \* the relay's answer

Remove(seq, i) == SubSeq(seq, 1, i - 1) \o SubSeq(seq, i + 1, Len(seq))

ReturnOf(v) == [kind |-> "return", value |-> v]

ThrowOf(m) == [kind |-> "throw", message |-> m]

\* a mutation of RelayAnswer: the catch answers without setting the status
RelayAnswerOk(out) ==
    IF out.kind = "return"
    THEN [status |-> 200, body |-> out.value]
    ELSE [status |-> 200,
          body |-> [error |-> JsOr(Str(out.message), Str(ApiErrorText))]]

\* the .then / .catch of handleResponses, run when createResponse settles
RelayAnswer(out) ==
    IF out.kind = "return"
    THEN [status |-> 200, body |-> out.value]
    ELSE [status |-> 500,
          body |-> [error |-> JsOr(Str(out.message), Str(ApiErrorText))]]

Settle(t, out) ==
    IF t.origin = "call"
    THEN [t EXCEPT !.out = out, !.pc = "settled"]
    ELSE [t EXCEPT !.out = out, !.pc = "answered", !.answers = @ + 1,
                   !.res = RelayAnswer(out)]

\* openai.responses.create(params) is called
CallResponsesCreate(t, p) ==
    [t EXCEPT !.params = p, !.sent = p, !.creates = @ + 1, !.pc = "create"]

\* a mutation of CreateResponseEnter: files.create is not awaited, the
\* completion request is issued while the upload is pending
CreateResponseEnterEager(t, a, copyOk) ==
    IF Truthy(a.filePath)
    THEN IF copyOk
         THEN CallResponsesCreate(
                  [t EXCEPT !.args = a, !.fileToUpload = Str(FileToUpload(a)),
                            !.uploads = @ + 1],
                  [InitialParams(a) EXCEPT !.input = MultimodalInput(a, Undefined)])
         ELSE Settle([t EXCEPT !.args = a, !.params = InitialParams(a)],
                     ThrowOf(UploadFailed))
    ELSE CallResponsesCreate([t EXCEPT !.args = a],
                             [InitialParams(a) EXCEPT !.input = a.input])

\* createResponse up to its first await
CreateResponseEnter(t, a, copyOk) ==
    IF Truthy(a.filePath)
    THEN IF copyOk
         THEN [t EXCEPT !.args = a, !.params = InitialParams(a),
                        !.disk = IF Truthy(a.originalFilename)
                                 THEN CopyFileSync(@, a.filePath.s, FileToUpload(a))
                                 ELSE @,
                        !.fileToUpload = Str(FileToUpload(a)),
                        !.uploads = @ + 1, !.pc = "upload"]
         ELSE Settle([t EXCEPT !.args = a, !.params = InitialParams(a)],
                     ThrowOf(UploadFailed))
    ELSE CallResponsesCreate([t EXCEPT !.args = a],
                             [InitialParams(a) EXCEPT !.input = a.input])

\* copyFileSync runs, and so can fail, only when there is an original filename
CopyOutcomes(a) ==
    IF Truthy(a.filePath) /\ Truthy(a.originalFilename) THEN BOOLEAN ELSE {TRUE}

\* the outcome of copyFileSync, kept with the turn
CopyDone(t, copyOk) ==
    IF copyOk THEN t ELSE [t EXCEPT !.storage = "copyFailed"]

\* the identifier files.create resolves with
FileId == Str(<<"file_1">>)

\* a mutation of AfterUpload: the upload error is caught and the request is
\* sent with the text alone
AfterUploadSwallow(t, ok) ==
    IF ok
    THEN CallResponsesCreate(t, [t.params EXCEPT !.input = MultimodalInput(t.args, FileId)])
    ELSE CallResponsesCreate(t, [t.params EXCEPT !.input = t.args.input])

\* createResponse from the settling of files.create to its next await
AfterUpload(t, ok) ==
    IF ok
    THEN CallResponsesCreate(t, [t.params EXCEPT !.input = MultimodalInput(t.args, FileId)])
    ELSE Settle(t, ThrowOf(UploadFailed))

\* await openai.files.create settles
UploadSettles(i) ==
    /\ i \in 1..Len(turns)
    /\ turns[i].pc = "upload"
    /\ \E ok \in BOOLEAN :
           turns' = [turns EXCEPT
                        ![i] = AfterUpload(
                                   [turns[i] EXCEPT
                                       !.storage = IF ok THEN "ok" ELSE "uploadFailed"],
                                   ok)]
    /\ UNCHANGED appVars

-----------------------------------------------------------------------------
(* Input domains *)

\* all strings over `alphabet` of length n
RECURSIVE StringsOf(_, _)
StringsOf(alphabet, n) ==
    IF n = 0 THEN { <<>> }
    ELSE { Append(s, c) : s \in StringsOf(alphabet, n - 1), c \in alphabet }

\* typed text: "a" is a visible character, " " is whitespace
Texts == UNION { StringsOf({"a", " "}, n) : n \in 0..MaxTextLen }

\* typed text and picked file names of full-system runs
TypedTexts == { <<>>, <<" ">>, <<"a">> }

PickableNames == { <<"a", ".", "P", "N", "G">> }

\* original file names given to createResponse
OriginalNames ==
    { <<"a", ".", "P", "N", "G">>, <<"a", ".", "p", "d", "f">>,
      <<"a", ".", "p", "n", "g">>, <<"a", ".", "J", "p", "g">>,
      <<"a", ".", "j", "p", "e", "g">>, <<"a", ".", "g", "i", "f">>,
      <<"a", ".", "w", "e", "b", "p">>, <<"a", ".", "p", "n", "g", ".", "p", "d", "f">>,
      <<"a", ".", "p", "d", "f", ".", "p", "n", "g">>, <<"a", ".", "p", "n", "g", "x">>,
      <<"a">>, <<"p", "n", "g">>, <<"a", ".">>, <<".", "p", "n", "g">>,
      <<".", ".", "p", "n", "g">>, <<"d", "/", ".", "g", "i", "f">>,
      <<"d", ".", "g", "i", "f", "/", "a">>, <<"a", ".", "g", "i", "f", "/">> }

\* stored paths given to createResponse: multer's, and paths that carry an
\* extension of their own
FilePaths ==
    { StoredPath, <<"t", "/", "b", ".", "j", "p", "g">>,
      <<"t", "/", "b", ".", "T", "X", "T">> }

Toggles == { Undefined, Bool(FALSE), Bool(TRUE) }

ShaperArgs ==
    { [input |-> Str(txt), previousResponseId |-> prev, filePath |-> fp,
       originalFilename |-> orig, webSearchEnabled |-> ws,
       codeInterpreterEnabled |-> ci, deepWikiMcpEnabled |-> dw,
       imageGenerationEnabled |-> ig] :
      txt \in Texts,
      prev \in { Undefined, Str(<<"resp_0">>) },
      fp \in { Undefined } \cup { Str(f) : f \in FilePaths },
      orig \in { Undefined, Str(<<>>) } \cup { Str(n) : n \in OriginalNames },
      ws \in Toggles, ci \in Toggles, dw \in Toggles, ig \in Toggles }

-----------------------------------------------------------------------------
(* The hosted completion API *)

TextBlock(s) == [t |-> "object", text |-> Str(s)]

MessageItem(blocks) ==
    [type |-> Str(<<"message">>), content |-> blocks,
     result |-> Undefined, output_format |-> Undefined]

ImageItem(result, format) ==
    [type |-> Str(<<"image_generation_call">>), content |-> Undefined,
     result |-> result, output_format |-> format]

\* the response objects responses.create resolves with in full-system runs
ApiResponses ==
    { [id |-> id, output |-> out] :
      id \in { Str(<<"resp_1">>), Str(<<"resp_2">>), Undefined },
      out \in { Arr(<<MessageItem(Arr(<<TextBlock(<<"H">>)>>))>>), Undefined } }

CompletionOutcomes ==
    { ReturnOf(d) : d \in ApiResponses }
    \cup { ThrowOf(m) : m \in { <<"400 Invalid request">>, <<>> } }

\* await openai.responses.create settles, and with it createResponse
CreateSettlesWith(i, outcomes) ==
    /\ i \in 1..Len(turns)
    /\ turns[i].pc = "create"
    /\ \E out \in outcomes :
           turns' = [turns EXCEPT ![i] = Settle(turns[i], out)]
    /\ UNCHANGED appVars

CreateSettles(i) == CreateSettlesWith(i, CompletionOutcomes)

\* output items of runs that exercise the reducer
ReducerItems ==
    { MessageItem(Undefined),
      MessageItem(Str(<<"H">>)),
      MessageItem(Arr(<<>>)),
      MessageItem(Arr(<<TextBlock(<<>>)>>)),
      MessageItem(Arr(<<TextBlock(<<"H">>)>>)),
      MessageItem(Arr(<<TextBlock(<<>>), TextBlock(<<"W">>)>>)),
      MessageItem(Arr(<<[t |-> "object", text |-> Undefined], TextBlock(<<"W">>)>>)),
      MessageItem(Arr(<<TextBlock(<<"H">>), TextBlock(<<"W">>)>>)),
      MessageItem(Arr(<<Null>>)),
      [MessageItem(Undefined) EXCEPT !.result = Str(<<"AAAA">>),
                                     !.output_format = Str(<<"png">>)],
      ImageItem(Str(<<"AAAA">>), Str(<<"png">>)),
      ImageItem(Str(<<"BBBB">>), Str(<<"jpeg">>)),
      ImageItem(Undefined, Str(<<"png">>)),
      ImageItem(Str(<<"AAAA">>), Undefined),
      ImageItem(Str(<<>>), Str(<<"png">>)),
      [MessageItem(Arr(<<TextBlock(<<"H">>)>>)) EXCEPT !.type = Str(<<"reasoning">>)],
      [MessageItem(Arr(<<TextBlock(<<"H">>)>>)) EXCEPT !.type = Undefined],
      Null }

RECURSIVE ArraysOf(_, _)
ArraysOf(items, n) ==
    IF n = 0 THEN { <<>> }
    ELSE { Append(a, x) : a \in ArraysOf(items, n - 1), x \in items }

\* the output field: an array of at most MaxItems items, or no array at all
ReducerOutputs ==
    { Arr(a) : a \in UNION { ArraysOf(ReducerItems, n) : n \in 0..MaxItems } }
    \cup { Undefined, Null, Str(<<"H">>), [t |-> "object"] }

ReducerOutcomes ==
    { ReturnOf([id |-> id, output |-> out]) :
      id \in { Str(<<"resp_1">>), Undefined }, out \in ReducerOutputs }

\* createResponse is called with arbitrary arguments
CallCreateResponse(i) ==
    /\ i \in 1..Len(turns)
    /\ turns[i].pc = "call"
    /\ \E copyOk \in CopyOutcomes(turns[i].args) :
           turns' = [turns EXCEPT
                        ![i] = CreateResponseEnter(CopyDone(turns[i], copyOk),
                                                   turns[i].args, copyOk)]
    /\ UNCHANGED appVars

-----------------------------------------------------------------------------
(* Response reducer: the part of sendMessage that follows response.json() *)

IsArray(v) == v.t = "array"

Thrown == [t |-> "throw"]

\* item.content.find(c => c.text): the first block whose text is truthy,
\* Undefined when there is none; reading .text of a null block throws
RECURSIVE FindText(_)
FindText(blocks) ==
    IF blocks = <<>> THEN Undefined
    ELSE IF Head(blocks) \in {Null, Undefined} THEN Thrown
    ELSE IF Truthy(Head(blocks).text) THEN Head(blocks)
    ELSE FindText(Tail(blocks))

\* a mutation of DataUri: the declared output format is ignored
DataUriPng(item) ==
    Str(<<"data:image/">> \o <<"png">> \o <<";base64,">> \o item.result.s)

DataUri(item) ==
    Str(<<"data:image/">> \o item.output_format.s \o <<";base64,">> \o item.result.s)

\* a mutation of ReduceItem: text of a later message item replaces the text
\* accumulated so far
ReduceItemOverwrite(acc, item) ==
    IF acc.threw THEN acc
    ELSE IF item \in {Null, Undefined} THEN [acc EXCEPT !.threw = TRUE]
    ELSE IF item.type = Str(<<"message">>) /\ Truthy(item.content) /\ IsArray(item.content)
    THEN LET textContent == FindText(item.content.a) IN
         IF textContent = Thrown THEN [acc EXCEPT !.threw = TRUE]
         ELSE IF Truthy(textContent) /\ Truthy(textContent.text)
         THEN [acc EXCEPT !.responseText = textContent.text.s]
         ELSE acc
    ELSE IF item.type = Str(<<"image_generation_call">>)
            /\ Truthy(item.result) /\ Truthy(item.output_format)
    THEN [acc EXCEPT !.imageUrl = DataUri(item),
                     !.responseText = IF @ = <<>> THEN ImageCaption ELSE @]
    ELSE acc

\* the callback of data.output.forEach
ReduceItem(acc, item) ==
    IF acc.threw THEN acc
    ELSE IF item \in {Null, Undefined} THEN [acc EXCEPT !.threw = TRUE]
    ELSE IF item.type = Str(<<"message">>) /\ Truthy(item.content) /\ IsArray(item.content)
    THEN LET textContent == FindText(item.content.a) IN
         IF textContent = Thrown THEN [acc EXCEPT !.threw = TRUE]
         ELSE IF Truthy(textContent) /\ Truthy(textContent.text)
         THEN [acc EXCEPT !.responseText =
                   @ \o (IF @ # <<>> THEN <<"\n">> ELSE <<>>) \o textContent.text.s]
         ELSE acc
    ELSE IF item.type = Str(<<"image_generation_call">>)
            /\ Truthy(item.result) /\ Truthy(item.output_format)
    THEN [acc EXCEPT !.imageUrl = DataUri(item),
                     !.responseText = IF @ = <<>> THEN ImageCaption ELSE @]
    ELSE acc

RECURSIVE ForEach(_, _)
ForEach(acc, items) ==
    IF items = <<>> THEN acc
    ELSE ForEach(ReduceItem(acc, Head(items)), Tail(items))

\* a mutation of ReduceOutput: an output that is no array is treated as an
\* array without items
ReduceOutputAsEmpty(output) ==
    IF Truthy(output) /\ IsArray(output)
    THEN LET acc == ForEach([responseText |-> <<>>, imageUrl |-> Undefined,
                             threw |-> FALSE], output.a)
         IN IF ~acc.threw /\ acc.responseText = <<>> /\ ~Truthy(acc.imageUrl)
            THEN [acc EXCEPT !.responseText = NoContentText]
            ELSE acc
    ELSE [responseText |-> NoContentText, imageUrl |-> Undefined, threw |-> FALSE]

\* responseText and imageUrl when the assistant message is built
ReduceOutput(output) ==
    IF Truthy(output) /\ IsArray(output)
    THEN LET acc == ForEach([responseText |-> <<>>, imageUrl |-> Undefined,
                             threw |-> FALSE], output.a)
         IN IF ~acc.threw /\ acc.responseText = <<>> /\ ~Truthy(acc.imageUrl)
            THEN [acc EXCEPT !.responseText = NoContentText]
            ELSE acc
    ELSE [responseText |-> NoOutputText, imageUrl |-> Undefined, threw |-> FALSE]

Now == Str(<<"Date.now()">>)

AssistantMessage(data) ==
    [id |-> JsOr(data.id, Now), text |-> Str(ReduceOutput(data.output).responseText),
     isUser |-> FALSE, fileName |-> Undefined,
     imageUrl |-> ReduceOutput(data.output).imageUrl]

ErrorMessage ==
    [id |-> Now, text |-> Str(ErrorBubbleText), isUser |-> FALSE,
     fileName |-> Undefined, imageUrl |-> Undefined]

-----------------------------------------------------------------------------
(* The App after construction *)

AppInit ==
    /\ messages = <<>>
    /\ input = <<>>
    /\ isLoading = FALSE
    /\ lastResponseId = Null
    /\ selectedFile = Null
    /\ webSearchEnabled = FALSE
    /\ codeInterpreterEnabled = FALSE
    /\ deepWikiMcpEnabled = FALSE
    /\ imageGenerationEnabled = FALSE
    /\ sendOutcome = "none"

-----------------------------------------------------------------------------
(* Specification of the request shaper alone: createResponse applied to     *)
(* every argument list of ShaperArgs                                        *)

ShaperInit ==
    /\ AppInit
    /\ \E a \in ShaperArgs : turns = << NewTurn("call", Undefined, a) >>

ShaperNext ==
    \/ CallCreateResponse(1)
    \/ UploadSettles(1)
    \/ CreateSettles(1)

SpecShaper == ShaperInit /\ [][ShaperNext]_vars

-----------------------------------------------------------------------------
(* The relay: handleResponses (index.ts), behind multer on the file route   *)

File(name) == [t |-> "file", name |-> name]

\* req.file as upload.single('file') leaves it
MulterFile(req) ==
    IF req.route = "file" /\ Truthy(req.file)
    THEN [t |-> "file", path |-> Str(StoredPath), originalname |-> Str(req.file.name)]
    ELSE Undefined

\* !input || input.trim() === ''
InputMissing(body) == ~Truthy(body.input) \/ Trim(body.input.s) = <<>>

\* the arguments handleResponses passes to createResponse
RelayArgs(body, file) ==
    [input |-> body.input,
     previousResponseId |-> body.previousResponseId,
     filePath |-> IF file = Undefined THEN Undefined ELSE file.path,
     originalFilename |-> IF file = Undefined THEN Undefined ELSE file.originalname,
     webSearchEnabled |-> Undefined,
     codeInterpreterEnabled |-> Undefined,
     deepWikiMcpEnabled |-> Undefined,
     imageGenerationEnabled |-> Undefined]

HandleResponses(i) ==
    /\ i \in 1..Len(turns)
    /\ turns[i].pc = "sent"
    /\ LET t == turns[i]
           body == t.req.body
           a == RelayArgs(body, MulterFile(t.req))
       IN IF InputMissing(body)
          THEN turns' = [turns EXCEPT
                            ![i] = [t EXCEPT !.pc = "answered", !.answers = @ + 1,
                                             !.res = [status |-> 400,
                                                      body |-> [error |-> Str(MissingInput)]]]]
          ELSE \E copyOk \in CopyOutcomes(a) :
                   turns' = [turns EXCEPT
                                ![i] = CreateResponseEnter(CopyDone(t, copyOk), a, copyOk)]
    /\ UNCHANGED appVars

\* a request of some other HTTP client of the relay
ExternalRequests ==
    { [route |-> route,
       body |-> [input |-> inp, previousResponseId |-> prev,
                 webSearchEnabled |-> flag, codeInterpreterEnabled |-> flag,
                 deepWikiMcpEnabled |-> flag, imageGenerationEnabled |-> flag],
       file |-> file] :
      route \in {"file", "text"},
      inp \in { Undefined } \cup { Str(txt) : txt \in Texts },
      prev \in { Undefined, Str(<<"resp_0">>) },
      flag \in { Undefined, Bool(TRUE) },
      file \in { Undefined } \cup { File(n) : n \in OriginalNames } }

ExternalRequest ==
    /\ \E req \in ExternalRequests :
           /\ req.route = "text" => req.file = Undefined
           /\ turns' = Append(turns, NewTurn("http", req, NoArgs))
    /\ UNCHANGED appVars

\* the other HTTP client takes the relay's answer
ExternalReceives(i) ==
    /\ i \in 1..Len(turns)
    /\ turns[i].origin = "http"
    /\ turns[i].pc = "answered"
    /\ turns' = Remove(turns, i)
    /\ UNCHANGED appVars

-----------------------------------------------------------------------------
(* The client: App (index.ts, the component with the feature toggles) *)

SetInput(txt) ==
    /\ ~isLoading                      \* the text box is disabled while loading
    /\ input' = txt
    /\ UNCHANGED <<messages, isLoading, lastResponseId, selectedFile, webSearchEnabled,
                   codeInterpreterEnabled, deepWikiMcpEnabled, imageGenerationEnabled,
                   sendOutcome, turns>>

HandleFileSelect(file) ==
    /\ selectedFile' = JsOr(file, Null)
    /\ UNCHANGED <<messages, input, isLoading, lastResponseId, webSearchEnabled,
                   codeInterpreterEnabled, deepWikiMcpEnabled, imageGenerationEnabled,
                   sendOutcome, turns>>

RemoveFile ==
    /\ Truthy(selectedFile)            \* the button is rendered only then
    /\ selectedFile' = Null
    /\ UNCHANGED <<messages, input, isLoading, lastResponseId, webSearchEnabled,
                   codeInterpreterEnabled, deepWikiMcpEnabled, imageGenerationEnabled,
                   sendOutcome, turns>>

SetWebSearchEnabled ==
    /\ webSearchEnabled' = ~webSearchEnabled
    /\ UNCHANGED <<messages, input, isLoading, lastResponseId, selectedFile,
                   codeInterpreterEnabled, deepWikiMcpEnabled, imageGenerationEnabled,
                   sendOutcome, turns>>

SetCodeInterpreterEnabled ==
    /\ codeInterpreterEnabled' = ~codeInterpreterEnabled
    /\ UNCHANGED <<messages, input, isLoading, lastResponseId, selectedFile,
                   webSearchEnabled, deepWikiMcpEnabled, imageGenerationEnabled,
                   sendOutcome, turns>>

SetDeepWikiMcpEnabled ==
    /\ deepWikiMcpEnabled' = ~deepWikiMcpEnabled
    /\ UNCHANGED <<messages, input, isLoading, lastResponseId, selectedFile,
                   webSearchEnabled, codeInterpreterEnabled, imageGenerationEnabled,
                   sendOutcome, turns>>

SetImageGenerationEnabled ==
    /\ imageGenerationEnabled' = ~imageGenerationEnabled
    /\ UNCHANGED <<messages, input, isLoading, lastResponseId, selectedFile,
                   webSearchEnabled, codeInterpreterEnabled, deepWikiMcpEnabled,
                   sendOutcome, turns>>

\* a mutation of SendReturnsEarly: isLoading is not consulted
SendReturnsEarlyNotLoading == ~Truthy(Str(Trim(input))) /\ ~Truthy(selectedFile)

\* a mutation of SendReturnsEarly: an empty turn is let through
SendReturnsEarlyNotEmpty == isLoading

\* the first line of sendMessage
SendReturnsEarly ==
    (~Truthy(Str(Trim(input))) /\ ~Truthy(selectedFile)) \/ isLoading

UserMessage ==
    [id |-> Now,
     text |-> JsOr(Str(input),
                   IF Truthy(selectedFile)
                   THEN Str(<<"[Uploaded file: ">> \o selectedFile.name \o <<"]">>)
                   ELSE Str(<<>>)),
     isUser |-> TRUE,
     fileName |-> IF Truthy(selectedFile) THEN Str(selectedFile.name) ELSE Undefined,
     imageUrl |-> Undefined]

\* Boolean.prototype.toString
BoolString(b) == Str(<<IF b THEN "true" ELSE "false">>)

\* the request the fetch of sendMessage carries
ClientRequest ==
    IF Truthy(selectedFile)
    THEN [route |-> "file",
          body |-> [input |-> JsOr(Str(input), Str(FallbackPrompt)),
                    previousResponseId |->
                        IF Truthy(lastResponseId) THEN lastResponseId ELSE Undefined,
                    webSearchEnabled |-> BoolString(webSearchEnabled),
                    codeInterpreterEnabled |-> BoolString(codeInterpreterEnabled),
                    deepWikiMcpEnabled |-> BoolString(deepWikiMcpEnabled),
                    imageGenerationEnabled |-> BoolString(imageGenerationEnabled)],
          file |-> selectedFile]
    ELSE [route |-> "text",
          body |-> [input |-> Str(input),
                    \* JSON keeps null and drops a field that is undefined
                    previousResponseId |-> lastResponseId,
                    webSearchEnabled |-> Bool(webSearchEnabled),
                    codeInterpreterEnabled |-> Bool(codeInterpreterEnabled),
                    deepWikiMcpEnabled |-> Bool(deepWikiMcpEnabled),
                    imageGenerationEnabled |-> Bool(imageGenerationEnabled)],
          file |-> Undefined]

\* sendMessage up to its first await (the Send button or the Enter key)
SendMessage ==
    IF SendReturnsEarly
    THEN /\ sendOutcome' = "returned"
         /\ UNCHANGED <<messages, input, isLoading, lastResponseId, selectedFile,
                        webSearchEnabled, codeInterpreterEnabled, deepWikiMcpEnabled,
                        imageGenerationEnabled, turns>>
    ELSE /\ messages' = Append(messages, UserMessage)
         /\ input' = <<>>
         /\ selectedFile' = Null
         /\ isLoading' = TRUE
         /\ turns' = Append(turns, NewTurn("app", ClientRequest, NoArgs))
         /\ sendOutcome' = "fetched"
         /\ UNCHANGED <<lastResponseId, webSearchEnabled, codeInterpreterEnabled,
                        deepWikiMcpEnabled, imageGenerationEnabled>>

\* a mutation of Receive: the invocation ends without setIsLoading(false)
ReceiveKeepsLoading(i) ==
    /\ i \in 1..Len(turns)
    /\ turns[i].origin = "app" /\ turns[i].client = "waiting"
    /\ turns[i].pc = "answered"
    /\ LET res == turns[i].res
           ok == res.status \in 200..299
           failed == ~ok \/ ReduceOutput(res.body.output).threw
       IN /\ messages' = Append(messages, IF failed THEN ErrorMessage
                                                    ELSE AssistantMessage(res.body))
          /\ lastResponseId' = IF failed THEN lastResponseId ELSE res.body.id
    /\ turns' = Remove(turns, i)
    /\ UNCHANGED <<input, isLoading, selectedFile, webSearchEnabled,
                   codeInterpreterEnabled, deepWikiMcpEnabled, imageGenerationEnabled,
                   sendOutcome>>

\* sendMessage from the settling of the fetch to its end
Receive(i) ==
    /\ i \in 1..Len(turns)
    /\ turns[i].origin = "app" /\ turns[i].client = "waiting"
    /\ turns[i].pc = "answered"
    /\ LET res == turns[i].res
           ok == res.status \in 200..299
           failed == ~ok \/ ReduceOutput(res.body.output).threw
       IN /\ messages' = Append(messages, IF failed THEN ErrorMessage
                                                    ELSE AssistantMessage(res.body))
          /\ lastResponseId' = IF failed THEN lastResponseId ELSE res.body.id
    /\ isLoading' = FALSE
    /\ turns' = Remove(turns, i)
    /\ UNCHANGED <<input, selectedFile, webSearchEnabled, codeInterpreterEnabled,
                   deepWikiMcpEnabled, imageGenerationEnabled, sendOutcome>>

\* a mutation of FetchFails: the catch also forgets the continuation token
FetchFailsResets(i) ==
    /\ i \in 1..Len(turns)
    /\ turns[i].origin = "app" /\ turns[i].client = "waiting"
    /\ turns[i].pc \in {"sent", "answered"}
    /\ messages' = Append(messages, ErrorMessage)
    /\ lastResponseId' = Null
    /\ isLoading' = FALSE
    /\ turns' = Remove(turns, i)
    /\ UNCHANGED <<input, selectedFile, webSearchEnabled, codeInterpreterEnabled,
                   deepWikiMcpEnabled, imageGenerationEnabled, sendOutcome>>

\* the fetch rejects: the request never reaches the relay, or its answer is lost
FetchFails(i) ==
    /\ i \in 1..Len(turns)
    /\ turns[i].origin = "app" /\ turns[i].client = "waiting"
    /\ turns[i].pc \in {"sent", "answered"}
    /\ messages' = Append(messages, ErrorMessage)
    /\ isLoading' = FALSE
    /\ turns' = Remove(turns, i)
    /\ UNCHANGED <<input, lastResponseId, selectedFile, webSearchEnabled,
                   codeInterpreterEnabled, deepWikiMcpEnabled, imageGenerationEnabled,
                   sendOutcome>>

ClearConversation ==
    /\ messages' = <<>>
    /\ lastResponseId' = Null
    /\ selectedFile' = Null
    /\ UNCHANGED <<input, isLoading, webSearchEnabled, codeInterpreterEnabled,
                   deepWikiMcpEnabled, imageGenerationEnabled, sendOutcome, turns>>

-----------------------------------------------------------------------------
(* Specification of conversations: the App and the relay, over               *)
(* conversations of at most MaxTurns turns                                  *)

Init ==
    /\ AppInit
    /\ turns = <<>>

\* the conversation on screen has room for one more turn
TurnsLeft == Len(messages) + 2 <= 2 * MaxTurns

Next ==
    \/ \E txt \in TypedTexts : SetInput(txt)
    \/ \E file \in { Undefined } \cup { File(n) : n \in PickableNames } :
           HandleFileSelect(file)
    \/ RemoveFile
    \/ (SendReturnsEarly \/ TurnsLeft) /\ SendMessage
    \/ ClearConversation
    \/ \E i \in 1..MaxTurns : HandleResponses(i)
    \/ \E i \in 1..MaxTurns : UploadSettles(i)
    \/ \E i \in 1..MaxTurns : CreateSettles(i)
    \/ \E i \in 1..MaxTurns : Receive(i)
    \/ \E i \in 1..MaxTurns : FetchFails(i)

Spec == Init /\ [][Next]_vars

\* every await of a turn settles: the relay handles the request it has
\* received, files.create and responses.create resolve or reject, and the
\* fetch of sendMessage resolves or rejects
TurnsSettle ==
    /\ WF_vars(\E i \in 1..MaxTurns : HandleResponses(i))
    /\ WF_vars(\E i \in 1..MaxTurns : UploadSettles(i))
    /\ WF_vars(\E i \in 1..MaxTurns : CreateSettles(i))
    /\ WF_vars(\E i \in 1..MaxTurns : Receive(i) \/ FetchFails(i))

SpecLive == Spec /\ TurnsSettle

-----------------------------------------------------------------------------
(* Specification of single turns with the feature toggles, and of requests  *)
(* of other HTTP clients.  The user acts between turns, and another client  *)
(* posts while the App shows what it shows after construction.              *)

Pristine ==
    /\ turns = <<>>
    /\ messages = <<>> /\ input = <<>> /\ ~isLoading
    /\ lastResponseId = Null /\ selectedFile = Null
    /\ ~webSearchEnabled /\ ~codeInterpreterEnabled
    /\ ~deepWikiMcpEnabled /\ ~imageGenerationEnabled

Idle == turns = <<>>

RelayNext ==
    \/ Idle /\ \E txt \in Texts : SetInput(txt)
    \/ Idle /\ \E file \in { Undefined } \cup { File(n) : n \in PickableNames } :
                   HandleFileSelect(file)
    \/ Idle /\ RemoveFile
    \/ Idle /\ SetWebSearchEnabled
    \/ Idle /\ SetCodeInterpreterEnabled
    \/ Idle /\ SetDeepWikiMcpEnabled
    \/ Idle /\ SetImageGenerationEnabled
    \/ Idle /\ (SendReturnsEarly \/ messages = <<>>) /\ SendMessage
    \/ Idle /\ ClearConversation
    \/ Pristine /\ ExternalRequest
    \/ HandleResponses(1)
    \/ UploadSettles(1)
    \/ CreateSettles(1)
    \/ Receive(1)
    \/ FetchFails(1)
    \/ ExternalReceives(1)

SpecRelay == Init /\ [][RelayNext]_vars

-----------------------------------------------------------------------------
(* Specification of the response reducer: one text-only turn whose          *)
(* completion call resolves with every output of ReducerOutputs             *)

ReducerNext ==
    \/ SetInput(<<"a">>)
    \/ (SendReturnsEarly \/ messages = <<>>) /\ SendMessage
    \/ HandleResponses(1)
    \/ CreateSettlesWith(1, ReducerOutcomes)
    \/ Receive(1)

SpecReducer == Init /\ [][ReducerNext]_vars

-----------------------------------------------------------------------------
(* Claims about the request shaper *)

IsOn(v) == v = Bool(TRUE)

\* the descriptors of the toggles that are true, in the fixed order
WantedTools(a) ==
    SelectSeq(<<WebSearchTool, CodeInterpreterTool, DeepWikiTool, ImageGenerationTool>>,
              LAMBDA d :
                  CASE d.type = "web_search"       -> IsOn(a.webSearchEnabled)
                    [] d.type = "code_interpreter" -> IsOn(a.codeInterpreterEnabled)
                    [] d.type = "mcp"              -> IsOn(a.deepWikiMcpEnabled)
                    [] d.type = "image_generation" -> IsOn(a.imageGenerationEnabled))

ToolsAsWanted(p, a) ==
    IF WantedTools(a) = <<>> THEN p.tools = Undefined
                             ELSE p.tools = Arr(WantedTools(a))

\* C1: for every combination of the four toggles passed to createResponse,
\* with or without an attachment, the payload's tools list holds exactly the
\* descriptors of the toggles that are true, in the order web_search,
\* code_interpreter, mcp, image_generation, and the tools field is absent
\* when all four are false.
C1_ToolsMatchToggles ==
    \A i \in 1..Len(turns) :
        LET t == turns[i] IN
        /\ t.params # Undefined => ToolsAsWanted(t.params, t.args)
        /\ t.sent # Undefined => ToolsAsWanted(t.sent, t.args)

C1_Witness ==
    \E i \in 1..Len(turns) :
        LET t == turns[i] IN
        /\ t.sent # Undefined
        /\ Truthy(t.args.filePath)
        /\ IsOn(t.args.webSearchEnabled) /\ ~IsOn(t.args.codeInterpreterEnabled)
        /\ IsOn(t.args.deepWikiMcpEnabled) /\ IsOn(t.args.imageGenerationEnabled)
        /\ Len(t.sent.tools.a) = 3

\* the last component of a path: trailing slashes dropped, then what follows
\* the last remaining slash
RECURSIVE DropTrailingSlashes(_)
DropTrailingSlashes(s) ==
    IF s # <<>> /\ s[Len(s)] = "/"
    THEN DropTrailingSlashes(SubSeq(s, 1, Len(s) - 1)) ELSE s

LastComponent(s) ==
    LET d == DropTrailingSlashes(s)
        slashes == { k \in 1..Len(d) : d[k] = "/" }
        from == IF slashes = {} THEN 1
                ELSE 1 + CHOOSE k \in slashes : \A j \in slashes : j <= k
    IN SubSeq(d, from, Len(d))

\* the name ends, in any letter case, in a dot and one of the five image
\* extensions, after a stem that is not empty
HasImageExtension(name) ==
    LET c == LastComponent(name) IN
    \E e \in ImageExtensions :
        /\ Len(c) > Len(e)
        /\ ToLowerCase(SubSeq(c, Len(c) - Len(e) + 1, Len(c))) = e

OriginalAvailable(a) == IsStr(a.originalFilename) /\ a.originalFilename.s # <<>>

ReferenceBlock(p) == p.input.a[1].content.a[2]

TextBlockOf(p) == p.input.a[1].content.a[1]

\* C8: with an attachment, the reference block is tagged input_image exactly
\* when the extension of the original filename, compared case-insensitively,
\* is one of png, jpg, jpeg, gif, webp, and input_file otherwise; the stored
\* path's extension decides only when there is no original filename.
C8_TagFollowsExtension ==
    \A i \in 1..Len(turns) :
        LET t == turns[i]
            name == IF OriginalAvailable(t.args) THEN t.args.originalFilename.s
                                                 ELSE t.args.filePath.s
        IN (t.sent # Undefined /\ Truthy(t.args.filePath)) =>
               /\ Len(t.sent.input.a) = 1
               /\ Len(t.sent.input.a[1].content.a) = 2
               /\ ReferenceBlock(t.sent).type =
                      IF HasImageExtension(name) THEN "input_image" ELSE "input_file"

C8_Witness ==
    \E i \in 1..Len(turns) :
        LET t == turns[i] IN
        /\ t.sent # Undefined
        /\ t.args.originalFilename = Str(<<"a", ".", "P", "N", "G">>)
        /\ t.args.filePath = Str(<<"t", "/", "b", ".", "T", "X", "T">>)
        /\ ReferenceBlock(t.sent).type = "input_image"

\* C9: given empty text together with an attachment, the input_text block of
\* the shaped user message carries the fallback prompt, never the empty
\* string.
C9_FallbackPrompt ==
    \A i \in 1..Len(turns) :
        LET t == turns[i] IN
        (t.sent # Undefined /\ Truthy(t.args.filePath) /\ t.args.input = Str(<<>>)) =>
            /\ TextBlockOf(t.sent).text # Str(<<>>)
            /\ TextBlockOf(t.sent).text = Str(FallbackPrompt)

-----------------------------------------------------------------------------
(* Claims about the relay and the client *)

ToggleSent(v) == v = Bool(TRUE) \/ v = Str(<<"true">>)

HasTool(p, type) ==
    /\ p.tools # Undefined
    /\ \E k \in 1..Len(p.tools.a) : p.tools.a[k].type = type

\* C2: for every turn that goes through the relay, on either route, each
\* feature toggle that is true in the inbound request has its tool
\* descriptor in the payload sent to the completion API, with or without an
\* attachment.
C2_TogglesReachPayload ==
    \A i \in 1..Len(turns) :
        LET t == turns[i] IN
        (t.origin # "call" /\ t.sent # Undefined) =>
            /\ ToggleSent(t.req.body.webSearchEnabled) => HasTool(t.sent, "web_search")
            /\ ToggleSent(t.req.body.codeInterpreterEnabled)
                   => HasTool(t.sent, "code_interpreter")
            /\ ToggleSent(t.req.body.deepWikiMcpEnabled) => HasTool(t.sent, "mcp")
            /\ ToggleSent(t.req.body.imageGenerationEnabled)
                   => HasTool(t.sent, "image_generation")

IsToken(v) == IsStr(v) /\ v.s # <<>>

\* a step in which sendMessage issues a fetch
Fetches == Len(turns') = Len(turns) + 1 /\ turns'[Len(turns')].origin = "app"

\* a step in which the relay calls the completion API for turn i
Forwards(i) ==
    /\ i \in 1..Len(turns) /\ Len(turns') = Len(turns)
    /\ turns[i].sent = Undefined /\ turns'[i].sent # Undefined

C3_TokenKept ==
    (IsToken(lastResponseId) /\ ~ClearConversation) => IsToken(lastResponseId')

C3_TokenCarried ==
    (IsToken(lastResponseId) /\ Fetches) =>
        turns'[Len(turns')].req.body.previousResponseId = lastResponseId

C3_TokenRelayed ==
    \A i \in 1..Len(turns) :
        (Forwards(i) /\ IsToken(turns[i].req.body.previousResponseId)) =>
            turns'[i].sent.previous_response_id = turns[i].req.body.previousResponseId

\* C3: once lastResponseId has been set by a response, every later turn's
\* request, on both routes, carries it and the relay forwards it as
\* previous_response_id, until clearConversation is invoked; no other event
\* (a failed turn, a response without an identifier) unsets or drops it.
C3_TokenForwardedUntilCleared ==
    [][C3_TokenKept /\ C3_TokenCarried /\ C3_TokenRelayed]_vars

NoText(v) == ~IsStr(v) \/ Trim(v.s) = <<>>

\* the relay has refused the turn without calling a collaborator
Refused(t) ==
    /\ t.uploads = 0 /\ t.creates = 0 /\ t.sent = Undefined
    /\ t.pc # "sent" =>
           /\ t.pc = "answered"
           /\ t.res.status = 400
           /\ t.answers = 1

C4_ClientSendsNothing ==
    (Trim(input) = <<>> /\ ~Truthy(selectedFile)) => ~Fetches

C4_RelayRefuses ==
    \A i \in 1..Len(turns) :
        (NoText(turns[i].req.body.input) /\ MulterFile(turns[i].req) = Undefined)
            => Refused(turns[i])

\* C4: a turn with empty or whitespace-only text and no attachment is
\* rejected before any network activity: sendMessage returns without a
\* fetch, and handleResponses answers 400 without invoking the storage
\* upload or the completion API.
C4_EmptyTurnRejected == []C4_RelayRefuses /\ [][C4_ClientSendsNothing]_vars

C4_Witness ==
    /\ sendOutcome = "returned" /\ ~isLoading
    /\ Trim(input) = <<>> /\ ~Truthy(selectedFile)
    /\ \E i \in 1..Len(turns) :
           /\ turns[i].req.body.input = Str(<<" ">>)
           /\ turns[i].req.file = Undefined
           /\ turns[i].pc = "answered" /\ turns[i].res.status = 400

\* C5: text is required only without an attachment: every turn that carries
\* an attachment and that the client accepts, empty or whitespace-only text
\* included, passes the relay's validation and reaches createResponse,
\* rather than being answered 400 'Missing input'.
C5_AttachmentNeedsNoText ==
    \A i \in 1..Len(turns) :
        LET t == turns[i] IN
        (t.origin = "app" /\ Truthy(t.req.file) /\ t.pc # "sent") =>
            /\ ~(t.pc = "answered" /\ t.res.status = 400)
            /\ t.args # NoArgs

\* C6: when createResponse has an attachment and the copy or the storage
\* upload fails, it throws the upload error, responses.create is never
\* called for that request, and the relay answers with a 500 envelope.
C6_UploadFailureAborts ==
    \A i \in 1..Len(turns) :
        LET t == turns[i] IN
        t.storage \in {"copyFailed", "uploadFailed"} =>
            /\ t.out = ThrowOf(UploadFailed)
            /\ t.creates = 0 /\ t.sent = Undefined
            /\ t.pc = "answered" /\ t.answers = 1
            /\ t.res = [status |-> 500, body |-> [error |-> Str(UploadFailed)]]

C6_Witness ==
    \E i \in 1..Len(turns) :
        /\ turns[i].storage = "uploadFailed"
        /\ turns[i].uploads = 1
        /\ turns[i].res.status = 500

AppTurns == SelectSeq(turns, LAMBDA t : t.origin = "app")

\* C7: the client has at most one turn's round trip outstanding: while
\* isLoading is true no invocation of sendMessage starts a second request.
C7_OneTurnInFlight ==
    /\ Len(AppTurns) <= 1
    /\ Len(AppTurns) = 1 => isLoading

C7_Witness ==
    /\ isLoading /\ Len(AppTurns) = 1
    /\ sendOutcome = "returned"
    /\ Truthy(selectedFile)

-----------------------------------------------------------------------------
(* Claims about the response reducer *)

IsObject(v) == v \notin {Null, Undefined}

\* every item is an object, and so is every block of a content array
WellFormed(output) ==
    /\ IsArray(output)
    /\ \A k \in 1..Len(output.a) :
           /\ IsObject(output.a[k])
           /\ IsArray(output.a[k].content) =>
                  \A b \in 1..Len(output.a[k].content.a) :
                      IsObject(output.a[k].content.a[b])

\* the non-empty texts of the blocks of a message-tagged item, in order
NonEmptyTexts(item) ==
    IF item.type = Str(<<"message">>) /\ IsArray(item.content)
    THEN SelectSeq([b \in 1..Len(item.content.a) |-> item.content.a[b].text],
                   LAMBDA x : IsStr(x) /\ x.s # <<>>)
    ELSE <<>>

HasText(item) == NonEmptyTexts(item) # <<>>

FirstText(item) == NonEmptyTexts(item)[1].s

IsImageResult(item) ==
    /\ item.type = Str(<<"image_generation_call">>)
    /\ IsStr(item.result) /\ item.result.s # <<>>
    /\ IsStr(item.output_format) /\ item.output_format.s # <<>>

\* the default caption is set: an image result comes before every text
CaptionLeads(items) ==
    \E k \in 1..Len(items) :
        /\ IsImageResult(items[k])
        /\ \A j \in 1..(k - 1) : ~HasText(items[j])

\* the pieces of the display text, in order
Pieces(items) ==
    (IF CaptionLeads(items) THEN <<ImageCaption>> ELSE <<>>)
    \o [k \in 1..Len(SelectSeq(items, HasText)) |->
            FirstText(SelectSeq(items, HasText)[k])]

RECURSIVE JoinLines(_)
JoinLines(pieces) ==
    IF pieces = <<>> THEN <<>>
    ELSE IF Len(pieces) = 1 THEN pieces[1]
    ELSE pieces[1] \o <<"\n">> \o JoinLines(Tail(pieces))

ExpectedText(items) ==
    IF Pieces(items) = <<>> THEN NoContentText ELSE JoinLines(Pieces(items))

LastMessage(msgs) == msgs[Len(msgs)]

C10_Step ==
    (Receive(1) /\ turns[1].res.status = 200
                /\ WellFormed(turns[1].res.body.output)) =>
        LET items == turns[1].res.body.output.a
            m == LastMessage(messages')
        IN /\ Len(messages') = Len(messages) + 1
           /\ ~m.isUser
           /\ m.text = Str(ExpectedText(items))
           /\ (Len(items) = 1 /\ HasText(items[1])) =>
                  /\ m.text = Str(FirstText(items[1]))
                  /\ m.imageUrl = Undefined

\* C10: the reducer visits every item of the output array in order and, for
\* each message-tagged item whose content holds a block with non-empty text,
\* appends the first such text to the accumulated text, after a newline when
\* text was already accumulated; an array of a single message item with text
\* t yields display text exactly t and no inline image.
C10_TextAccumulates == [][C10_Step]_vars

C10_Witness ==
    /\ ~isLoading /\ turns = <<>>
    /\ Len(messages) = 2
    /\ messages[2].text = Str(<<"H", "\n", "W">>)
    /\ messages[2].imageUrl = Undefined

\* the data URI of the last image result of the array, Undefined without one
ExpectedImage(items) ==
    LET found == { k \in 1..Len(items) : IsImageResult(items[k]) } IN
    IF found = {} THEN Undefined
    ELSE LET last == CHOOSE k \in found : \A j \in found : j <= k
         IN Str(<<"data:image/">> \o items[last].output_format.s
                \o <<";base64,">> \o items[last].result.s)

C11_Step ==
    (Receive(1) /\ turns[1].res.status = 200
                /\ WellFormed(turns[1].res.body.output)) =>
        LET items == turns[1].res.body.output.a
            m == LastMessage(messages')
        IN /\ m.imageUrl = ExpectedImage(items)
           /\ CaptionLeads(items) <=> Head(m.text.s) = Head(ImageCaption)
           /\ (CaptionLeads(items) /\ \A k \in 1..Len(items) : ~HasText(items[k]))
                  => m.text = Str(ImageCaption)

\* C11: for every output array, the assistant message's imageUrl is the data
\* URI data:image/<format>;base64,<payload> of the last image_generation_call
\* item that has both a result and an output_format, and is absent without
\* such an item; 'Image generated:' becomes the text exactly when no text has
\* been accumulated when such an item is met.
C11_ImageAndCaption == [][C11_Step]_vars

C11_Witness ==
    /\ ~isLoading /\ turns = <<>>
    /\ Len(messages) = 2
    /\ messages[2].text = Str(<<"Image generated:", "\n", "H">>)
    /\ messages[2].imageUrl = Str(<<"data:image/", "jpeg", ";base64,", "BBBB">>)

BlockHasText(b) == IsObject(b) /\ IsStr(b.text) /\ b.text.s # <<>>

\* the item yields neither text nor an image: it is no object, or it is
\* neither a message item with a text block nor an image result
Barren(item) ==
    \/ ~IsObject(item)
    \/ /\ ~IsImageResult(item)
       /\ ~(/\ item.type = Str(<<"message">>)
            /\ IsArray(item.content)
            /\ \E b \in 1..Len(item.content.a) : BlockHasText(item.content.a[b]))

C12_Step ==
    (/\ Receive(1)
     /\ turns[1].res.status = 200
     /\ IsArray(turns[1].res.body.output)
     /\ \A k \in 1..Len(turns[1].res.body.output.a) :
            Barren(turns[1].res.body.output.a[k])) =>
        /\ Len(messages') = Len(messages) + 1
        /\ LastMessage(messages').text = Str(NoContentText)
        /\ LastMessage(messages').text # Str(ErrorBubbleText)

\* C12: reducing an output array from which neither text nor image is
\* produced (the empty array, or an array of items with an unrecognized tag
\* or a malformed shape) yields an assistant message whose text is the 'No
\* recognizable content' notice; the turn does not fail and no error bubble
\* is shown instead.
C12_NoContentNotice == [][C12_Step]_vars

C13_Step ==
    (Receive(1) /\ turns[1].res.status = 200
                /\ ~IsArray(turns[1].res.body.output)) =>
        LET m == LastMessage(messages') IN
        /\ Len(messages') = Len(messages) + 1
        /\ ~m.isUser
        /\ m.text = Str(NoOutputText)
        /\ m.imageUrl = Undefined

\* C13: when the output field of the hosted response is missing or is not an
\* array, the reduction yields an assistant message whose text is the 'No
\* output array received' notice and that has no inline image; no error is
\* raised.
C13_NoOutputNotice == [][C13_Step]_vars

C13_Witness ==
    /\ ~isLoading /\ turns = <<>>
    /\ Len(messages) = 2
    /\ messages[2].text = Str(NoOutputText)
    /\ messages[2].imageUrl = Undefined
    /\ lastResponseId = Str(<<"resp_1">>)

-----------------------------------------------------------------------------
(* Claims about whole turns *)

\* a step in which turn i fails: the relay's answer is not 2xx, or the fetch
\* rejects
TurnFails(i) ==
    \/ Receive(i) /\ turns[i].res.status \notin 200..299
    \/ FetchFails(i)

C14_Step ==
    \A i \in 1..Len(turns) :
        TurnFails(i) =>
            /\ Len(messages') = Len(messages) + 1
            /\ SubSeq(messages', 1, Len(messages)) = messages
            /\ ~LastMessage(messages').isUser
            /\ LastMessage(messages').text = Str(ErrorBubbleText)
            /\ lastResponseId' = lastResponseId

\* C14: when a turn fails, by a non-2xx answer of the relay or by a rejected
\* fetch, the client appends exactly one assistant-authored error bubble and
\* leaves lastResponseId and every message displayed before unchanged.
C14_FailureFrame == [][C14_Step]_vars

C14_Witness ==
    /\ ~isLoading /\ turns = <<>>
    /\ Len(messages) = 4
    /\ messages[2].text = Str(<<"H">>)
    /\ messages[4].text = Str(ErrorBubbleText)
    /\ lastResponseId = Str(<<"resp_1">>)

\* with an attachment, the completion request is issued only after the
\* storage upload has completed
C15_UploadFirst ==
    \A i \in 1..Len(turns) :
        LET t == turns[i] IN
        /\ t.pc = "upload" => (t.creates = 0 /\ t.sent = Undefined)
        /\ (Truthy(t.args.filePath) /\ t.creates > 0) =>
               (t.storage = "ok" /\ t.uploads = 1)

\* the client reduces an output only after the completion request of the
\* same turn has resolved, and it reduces what that request resolved with
C15_ReduceLast ==
    \A i \in 1..Len(turns) :
        (Receive(i) /\ turns[i].res.status \in 200..299) =>
            /\ turns[i].creates = 1
            /\ turns[i].out.kind = "return"
            /\ turns[i].res.body = turns[i].out.value
            /\ Truthy(turns[i].req.file) => turns[i].storage = "ok"

\* C15: within one turn the storage upload, when there is an attachment,
\* completes before the completion request is issued, and the completion
\* request resolves before the client reduces the output array into the
\* assistant message.
C15_TurnOrder == []C15_UploadFirst /\ [][C15_ReduceLast]_vars

C15_Witness ==
    /\ ~isLoading /\ turns = <<>>
    /\ Len(messages) = 2
    /\ Truthy(messages[1].fileName)
    /\ messages[2].text = Str(<<"H">>)
    /\ lastResponseId = Str(<<"resp_2">>)

\* sendMessage appends the user's message before its fetch and nothing but
\* clearConversation removes messages: a turn is in flight over an empty
\* history exactly when the conversation was reset after the turn was
\* submitted
ResetDuringFlight == Len(AppTurns) = 1 /\ isLoading /\ messages = <<>>

C16_Step ==
    ResetDuringFlight => (messages' = <<>> /\ ~IsToken(lastResponseId'))

\* C16: after clearConversation the continuation token is absent and the
\* history is empty, and both stay free of content from before the reset
\* until a turn submitted after the reset completes; the late response of a
\* turn that was in flight at the reset neither restores the token nor
\* appends its message.
C16_ResetHolds ==
    [][(ClearConversation => (messages' = <<>> /\ lastResponseId' = Null))
       /\ C16_Step]_vars

\* C17: for each inbound request the relay calls files.create at most once
\* and responses.create at most once, without retrying after a failure, and
\* sends exactly one answer: the hosted response as it is on success, an
\* error envelope with status 500 when the upload or the completion call
\* fails.
C17_OneCallOneAnswer ==
    \A i \in 1..Len(turns) :
        LET t == turns[i] IN
        t.origin # "call" =>
            /\ t.uploads <= 1 /\ t.creates <= 1 /\ t.answers <= 1
            /\ t.pc = "answered" <=> t.answers = 1
            /\ t.out # Undefined =>
                   /\ t.answers = 1
                   /\ t.out.kind = "return" =>
                          (t.creates = 1 /\ t.res = [status |-> 200, body |-> t.out.value])
                   /\ t.out.kind = "throw" =>
                          /\ t.res.status = 500
                          /\ IsStr(t.res.body.error) /\ t.res.body.error.s # <<>>
                          /\ t.storage \in {"copyFailed", "uploadFailed"} <=> t.creates = 0

C17_Witness ==
    \E i \in 1..Len(turns) :
        /\ turns[i].origin = "http"
        /\ turns[i].uploads = 1 /\ turns[i].creates = 1 /\ turns[i].answers = 1
        /\ turns[i].out = ThrowOf(<<>>)
        /\ turns[i].res = [status |-> 500, body |-> [error |-> Str(ApiErrorText)]]

-----------------------------------------------------------------------------
(* Claims about the copy made for the upload *)

\* the extension of a file name: what its last component carries from its
\* last dot on, nothing when there is no dot or only a leading one
ExtensionOf(name) ==
    LET c == LastComponent(name)
        dots == { k \in 1..Len(c) : c[k] = "." }
        last == CHOOSE k \in dots : \A j \in dots : j <= k
    IN IF dots = {} \/ last = 1 THEN <<>> ELSE SubSeq(c, last, Len(c))

EndsWith(s, e) == Len(s) >= Len(e) /\ SubSeq(s, Len(s) - Len(e) + 1, Len(s)) = e

\* C18: for every original filename, with an extension, without one or
\* absent, the copy step of createResponse leaves the stored file at its path
\* with its bytes, neither modified nor deleted, and the file handed to
\* files.create has a name that ends in the original filename's extension
\* and holds the stored file's bytes.
C18_CopyKeepsOriginal ==
    \A i \in 1..Len(turns) :
        LET t == turns[i] IN
        (t.origin = "call" /\ Truthy(t.args.filePath)) =>
            /\ [path |-> t.args.filePath.s, bytes |-> FileBytes] \in t.disk
            /\ \A f, g \in t.disk : f.path = g.path => f = g
            /\ t.fileToUpload # Undefined =>
                   /\ [path |-> t.fileToUpload.s, bytes |-> FileBytes] \in t.disk
                   /\ OriginalAvailable(t.args) =>
                          EndsWith(t.fileToUpload.s, ExtensionOf(t.args.originalFilename.s))

C18_Witness ==
    \E i \in 1..Len(turns) :
        /\ turns[i].args.originalFilename = Str(<<"a", ".", "P", "N", "G">>)
        /\ turns[i].fileToUpload = Str(StoredPath \o <<".", "P", "N", "G">>)
        /\ turns[i].uploads = 1
        /\ Cardinality(turns[i].disk) = 2

-----------------------------------------------------------------------------
(* Claims about the termination of turns *)

C19_Step ==
    /\ Fetches =>
           /\ messages' = Append(messages, LastMessage(messages'))
           /\ LastMessage(messages').isUser
           /\ ~isLoading /\ isLoading'
    /\ (isLoading /\ ~isLoading') =>
           /\ messages' = Append(messages, LastMessage(messages'))
           /\ ~LastMessage(messages').isUser
           /\ Len(AppTurns) = 1 /\ turns' = <<>>
    /\ (~Fetches /\ isLoading' = isLoading) => Len(messages') <= Len(messages)

\* C19: every turn the client submits finishes once its fetch resolves or
\* rejects: isLoading returns to false, and the turn has appended exactly
\* two messages, the user's message when it was submitted and exactly one
\* assistant message, the reduced reply or the error bubble, when it
\* finished.
C19_TurnFinishes == (isLoading ~> ~isLoading) /\ [][C19_Step]_vars

C19_Witness ==
    /\ ~isLoading /\ turns = <<>> /\ sendOutcome = "fetched"
    /\ Len(messages) = 2
    /\ messages[1].isUser
    /\ messages[2] = ErrorMessage
    /\ lastResponseId = Null

====
